---- MODULE Spec2Model ----
(***************************************************************************)
(* Modbus TCP clock server (modbus_clock_server.py).                       *)
(*                                                                         *)
(* The model follows handle_client byte by byte: every sock.recv call of   *)
(* recv_exact is one step, the dispatch of a completely received request   *)
(* is one step and conn.sendall is one step.  Frames are sequences of      *)
(* bytes (0..255); 16-bit fields are decoded and encoded as struct does.   *)
(***************************************************************************)
EXTENDS Integers, Sequences, FiniteSets, TLC

VARIABLES
    stream,   \* stream[c]: bytes the peer has written that the handler has not read yet
    net,      \* net[c]: "open", "fin" (peer closed its end) or "reset" (connection reset)
    pc,       \* pc[c]: position of handle_client in its loop
    hdr,      \* hdr[c]: chunks accumulated by recv_exact(conn, 7)
    pdu,      \* pdu[c]: chunks accumulated by recv_exact(conn, length - 1)
    resp,     \* resp[c]: the response built for the current request, not yet sent
    sample,   \* sample[c]: the registers read_clock_registers sampled for the current request, <<>> if none
    unsent,   \* unsent[c]: the rest of the frame the peer has begun to write
    err,      \* err[c]: the exception that ended the handler (logged as "Client disconnected"), "" if none
    faulted,  \* faulted[c]: an exception response has been sent on the connection
    connOpen, \* connOpen[c]: conn.close() has not been called on the connection's socket
    call,     \* one call of read_clock_registers made outside any handler: its arguments and its result
    sent,     \* sent[c]: <<e>>, e the exchange completed by the latest sendall, and <<>> once the loop has read again
    now       \* the system clock, in ticks

vars == <<stream, unsent, net, pc, hdr, pdu, resp, sample, err, faulted, connOpen, call, sent, now>>

\* ------------------------------ bounds ---------------------------------
\* bytes the peer may have in flight towards the handler
MaxInFlight == 13
\* last tick of the clock
MaxTick == 1
\* read_clock_registers is called with start and count in -ArgRange .. ArgRange
ArgRange == 8

\* ------------------------- program constants ---------------------------
ILLEGAL_FUNCTION == 1
ILLEGAL_DATA_ADDRESS == 2
ILLEGAL_DATA_VALUE == 3
\* size of the MBAP header read by recv_exact(conn, 7)
MBAP_SIZE == 7
\* function code of Read Holding Registers
FC_READ_HOLDING == 3
\* largest quantity accepted
MAX_QTY == 125

Min(a, b) == IF a < b THEN a ELSE b
Max(a, b) == IF a > b THEN a ELSE b

\* ----------------------------- struct ----------------------------------
\* struct.pack(">H", v): two bytes, most significant first
PackH(v) == << (v \div 256) % 256, v % 256 >>
\* struct.unpack(">H", <<hi, lo>>)
UnpackH(hi, lo) == hi * 256 + lo
\* mutant: `function + 0x80` written for `function | 0x80`
Or80Added(b) == b + 128

\* function | 0x80 on a byte
Or80(b) == IF b % 256 >= 128 THEN b ELSE b + 128
\* v & 0xFFFF
Mask16(v) == v % 65536

\* mbap = struct.pack(">HHHB", transaction_id, protocol_id, length, unit_id)
PackMbap(transaction_id, protocol_id, length, unit_id) ==
    PackH(transaction_id) \o PackH(protocol_id) \o PackH(length) \o <<unit_id>>

parse_mbap_header(h) ==
    [transaction_id |-> UnpackH(h[1], h[2]),
     protocol_id    |-> UnpackH(h[3], h[4]),
     length         |-> UnpackH(h[5], h[6]),
     unit_id        |-> h[7]]

\* ------------------------------ clock ----------------------------------
\* dt.datetime.now() at tick t: the clock starts at 2025-12-31 23:59:59 and
\* advances one second per tick
Now(t) ==
    IF t = 0
    THEN [day |-> 31, month |-> 12, year |-> 2025, hour |-> 23, minute |-> 59, second |-> 59]
    ELSE [day |-> 1, month |-> 1, year |-> 2026, hour |-> 0, minute |-> (t - 1) \div 60, second |-> (t - 1) % 60]

\* registers = (now.day, now.month, now.year, now.hour, now.minute, now.second)
Registers(t) ==
    LET n == Now(t) IN <<n.day, n.month, n.year, n.hour, n.minute, n.second>>

\* Python's seq[a:b] for integers a, b
PySlice(s, a, b) ==
    LET len == Len(s)
        lo  == IF a < 0 THEN Max(a + len, 0) ELSE Min(a, len)
        hi  == IF b < 0 THEN Max(b + len, 0) ELSE Min(b, len)
    IN  SubSeq(s, lo + 1, hi)

\* mutant: the range check looks at start alone
read_clock_registers_StartOnly(start, count, t) ==
    LET registers == Registers(t)
        end == start + count
    IN  IF start < 0 \/ start >= Len(registers)
        THEN [ok |-> FALSE, vals |-> <<>>, registers |-> registers]
        ELSE [ok |-> TRUE, vals |-> PySlice(registers, start, end), registers |-> registers]

\* mutant: `registers[start:count]` written for `registers[start:end]`
read_clock_registers_SliceCount(start, count, t) ==
    LET registers == Registers(t)
        end == start + count
    IN  IF start < 0 \/ end > Len(registers)
        THEN [ok |-> FALSE, vals |-> <<>>, registers |-> registers]
        ELSE [ok |-> TRUE, vals |-> PySlice(registers, start, count), registers |-> registers]

\* mutant: `end >= len(registers)` written for `end > len(registers)`
read_clock_registers_EndInclusive(start, count, t) ==
    LET registers == Registers(t)
        end == start + count
    IN  IF start < 0 \/ end >= Len(registers)
        THEN [ok |-> FALSE, vals |-> <<>>, registers |-> registers]
        ELSE [ok |-> TRUE, vals |-> PySlice(registers, start, end), registers |-> registers]

\* read_clock_registers(start, count) called at tick t; ok = FALSE is IndexError
read_clock_registers(start, count, t) ==
    LET registers == Registers(t)
        end == start + count
    IN  IF start < 0 \/ end > Len(registers)
        THEN [ok |-> FALSE, vals |-> <<>>, registers |-> registers]
        ELSE [ok |-> TRUE, vals |-> PySlice(registers, start, end), registers |-> registers]

\* --------------------------- responses ---------------------------------
\* mutant: the protocol identifier is written as the constant 0
build_exception_response_Pid0(transaction_id, protocol_id, unit_id, function, ex_code) ==
    LET p == << Or80(function), ex_code >>
        length == 1 + Len(p)
    IN  PackMbap(transaction_id, 0, length, unit_id) \o p

build_exception_response(transaction_id, protocol_id, unit_id, function, ex_code) ==
    LET p == << Or80(function), ex_code >>
        length == 1 + Len(p)
    IN  PackMbap(transaction_id, protocol_id, length, unit_id) \o p

RECURSIVE PackRegs(_)
\* b"".join(struct.pack(">H", v & 0xFFFF) for v in values)
PackRegs(values) ==
    IF values = <<>> THEN <<>>
    ELSE PackH(Mask16(Head(values))) \o PackRegs(Tail(values))

\* mutant: the length field leaves out the unit identifier
build_fc3_response_NoUnit(transaction_id, protocol_id, unit_id, values) ==
    LET byte_count == Len(values) * 2
        pdu_header == << FC_READ_HOLDING, byte_count >>
        p == pdu_header \o PackRegs(values)
        length == Len(p)
    IN  PackMbap(transaction_id, protocol_id, length, unit_id) \o p

build_fc3_response(transaction_id, protocol_id, unit_id, values) ==
    LET byte_count == Len(values) * 2
        pdu_header == << FC_READ_HOLDING, byte_count >>
        p == pdu_header \o PackRegs(values)
        length == 1 + Len(p)
    IN  PackMbap(transaction_id, protocol_id, length, unit_id) \o p

\* mutant: `len(pdu) < 5` written for `len(pdu) != 5`
PduLenOk_AtLeast(p) == Len(p) >= 5

\* `if len(pdu) != 5` is not taken
PduLenOk(p) == Len(p) = 5

\* mutant: the lower bound of the quantity is not checked
QtyBad_UpperOnly(qty) == qty > MAX_QTY

\* `if qty < 1 or qty > 125`
QtyBad(qty) == qty < 1 \/ qty > MAX_QTY

\* a frame whose PDU is an exception response
IsException(frame) == frame[MBAP_SIZE + 1] >= 128

\* mutant: an exception response ends the loop (`break` for `continue`)
AfterSend_Break(frame) == IF IsException(frame) THEN "Closed" ELSE "AwaitingHeader"

\* where the loop goes once sendall has returned: `continue`, or the end of
\* the loop body, both lead to recv_exact(conn, 7)
AfterSend(frame) == "AwaitingHeader"

\* The body of handle_client's loop from `function = pdu[0]` to the sendall
\* call, for a non-empty PDU p received after header h, at tick t:
\* the frame handed to sendall and the registers sampled on the way.
Dispatched(h, p, t) ==
    LET m == parse_mbap_header(h)
        function == p[1]
        exc(code) == build_exception_response(m.transaction_id, m.protocol_id, m.unit_id, function, code)
    IN  IF function = FC_READ_HOLDING
        THEN IF ~PduLenOk(p)
             THEN [frame |-> exc(ILLEGAL_DATA_VALUE), sample |-> <<>>]
             ELSE LET start_addr == UnpackH(p[2], p[3])
                      qty == UnpackH(p[4], p[5])
                  IN  IF QtyBad(qty)
                      THEN [frame |-> exc(ILLEGAL_DATA_VALUE), sample |-> <<>>]
                      ELSE LET r == read_clock_registers(start_addr, qty, t)
                           IN  IF ~r.ok
                               THEN [frame |-> exc(ILLEGAL_DATA_ADDRESS), sample |-> r.registers]
                               ELSE [frame |-> build_fc3_response(m.transaction_id, m.protocol_id, m.unit_id, r.vals),
                                     sample |-> r.registers]
        ELSE [frame |-> exc(ILLEGAL_FUNCTION), sample |-> <<>>]

\* ------------------------------ peers ----------------------------------
\* What a peer writes.  A frame is an MBAP header followed by a PDU; the
\* peer may also stop in the middle of a frame.
Idents == { <<1, 0, 1>>, <<258, 772, 255>> }

ReadArgs ==
    { <<0, 6>>, <<5, 1>>,                                 \* in range
      <<0, 0>>, <<0, 126>>, <<7, 0>>, <<65535, 65535>>,   \* quantity out of range
      <<0, 7>>, <<0, 125>>, <<5, 2>>, <<256, 1>> }        \* address out of range

ReadPdu(start, qty) == <<FC_READ_HOLDING>> \o PackH(start) \o PackH(qty)

Pdus ==
    { ReadPdu(a[1], a[2]) : a \in ReadArgs }
    \cup { <<3>>, <<3, 0, 0, 0>>, <<3, 0, 0, 0, 1, 0>> }
    \cup { <<0>>, <<4, 0, 0, 0, 1>>, <<131, 0, 0, 0, 6>>, <<255>> }
    \cup { <<>> }

\* the PDUs sent under every identity of Idents
CommonPdus == { ReadPdu(0, 6), ReadPdu(0, 7), <<4, 0, 0, 0, 1>> }

Frame(i, p) == PackMbap(i[1], i[2], 1 + Len(p), i[3]) \o p

Frames ==
    { Frame(<<1, 0, 1>>, p) : p \in Pdus }
    \cup { Frame(i, p) : i \in Idents, p \in CommonPdus }
    \cup { PackMbap(1, 0, 0, 1) }

\* where a peer may pause, or stop, in the middle of a frame
Cuts == {3, 9}

\* ------------------------------ state ----------------------------------
\* no call of read_clock_registers outside the handlers
NoCall == [start |-> 0, count |-> 0, state |-> "none", at |-> 0, ok |-> FALSE, vals |-> <<>>]

Conns == DOMAIN pc

InitWith(S) ==
    /\ stream = [c \in S |-> <<>>]
    /\ unsent = [c \in S |-> <<>>]
    /\ net    = [c \in S |-> "open"]
    /\ pc     = [c \in S |-> "AwaitingHeader"]
    /\ hdr    = [c \in S |-> <<>>]
    /\ pdu    = [c \in S |-> <<>>]
    /\ resp   = [c \in S |-> <<>>]
    /\ sample = [c \in S |-> <<>>]
    /\ err    = [c \in S |-> ""]
    /\ faulted = [c \in S |-> FALSE]
    /\ connOpen = [c \in S |-> TRUE]
    /\ sent   = [c \in S |-> <<>>]
    /\ now    = 0

\* one connection, accepted, its handler started
Init ==
    /\ InitWith({1})
    /\ call = NoCall

\* ------------------------------ peer -----------------------------------
\* the peer writes the first k bytes of frame f
ClientSend(c, f, k) ==
    /\ net[c] = "open"
    /\ unsent[c] = <<>>
    /\ k <= Len(f)
    /\ Len(stream[c]) + k <= MaxInFlight
    /\ stream' = [stream EXCEPT ![c] = @ \o SubSeq(f, 1, k)]
    /\ unsent' = [unsent EXCEPT ![c] = SubSeq(f, k + 1, Len(f))]
    /\ UNCHANGED <<net, pc, hdr, pdu, resp, sample, err, faulted, sent, now, connOpen, call>>

\* the peer writes the rest of the frame it has begun
ClientResume(c) ==
    /\ net[c] = "open"
    /\ unsent[c] # <<>>
    /\ Len(stream[c]) + Len(unsent[c]) <= MaxInFlight
    /\ stream' = [stream EXCEPT ![c] = @ \o unsent[c]]
    /\ unsent' = [unsent EXCEPT ![c] = <<>>]
    /\ UNCHANGED <<net, pc, hdr, pdu, resp, sample, err, faulted, sent, now, connOpen, call>>

\* the peer closes its end: reads return b"" once the stream is drained
ClientClose(c) ==
    /\ net[c] = "open"
    /\ net' = [net EXCEPT ![c] = "fin"]
    /\ UNCHANGED <<stream, unsent, pc, hdr, pdu, resp, sample, err, faulted, sent, now, connOpen, call>>

\* the connection is reset: reads and writes raise OSError
ClientReset(c) ==
    /\ net[c] \in {"open", "fin"}
    /\ net' = [net EXCEPT ![c] = "reset"]
    /\ UNCHANGED <<stream, unsent, pc, hdr, pdu, resp, sample, err, faulted, sent, now, connOpen, call>>

Tick ==
    /\ now < MaxTick
    /\ now' = now + 1
    /\ UNCHANGED <<stream, unsent, net, pc, hdr, pdu, resp, sample, err, faulted, sent, connOpen, call>>

\* ----------------------------- handler ---------------------------------
\* mutant: `while bytes_recd != n`
RecvExactPending_NotEqual(buf, n) == Len(buf) # n

\* recv_exact: `while bytes_recd < n`
RecvExactPending(buf, n) == Len(buf) < n

\* mutant: `sock.recv(n)` written for `sock.recv(n - bytes_recd)`
RecvLimit_Whole(n, bytes_recd) == n

\* recv_exact: the most bytes `sock.recv(n - bytes_recd)` may return
RecvLimit(n, bytes_recd) == n - bytes_recd

\* mutant: the clock value of the last direct call is kept and used again
datetime_now_Kept == call.at

\* read_clock_registers: `now = dt.datetime.now()`, the clock when it is called
datetime_now == now

\* mutant: `recv_exact(conn, length)` written for `recv_exact(conn, length - 1)`
Want_Length(c) ==
    IF pc[c] = "AwaitingHeader" THEN MBAP_SIZE
    ELSE parse_mbap_header(hdr[c]).length

\* the n of the recv_exact call the handler is in
Want(c) ==
    IF pc[c] = "AwaitingHeader" THEN MBAP_SIZE
    ELSE parse_mbap_header(hdr[c]).length - 1

\* mutant: conn.close() is not in a finally clause and is skipped
Close_NoFinally(c, e) ==
    /\ pc' = [pc EXCEPT ![c] = "Closed"]
    /\ err' = [err EXCEPT ![c] = e]
    /\ connOpen' = connOpen

\* except (ConnectionError, OSError) as e: log; finally: conn.close().
\* The handler ends; e is the exception
Close(c, e) ==
    /\ pc' = [pc EXCEPT ![c] = "Closed"]
    /\ err' = [err EXCEPT ![c] = e]
    /\ connOpen' = [connOpen EXCEPT ![c] = FALSE]

\* sock.recv(n - bytes_recd) returns k bytes; the handler runs on to its next
\* blocking call
RecvChunk(c) ==
    /\ pc[c] \in {"AwaitingHeader", "AwaitingBody"}
    /\ net[c] # "reset"
    /\ stream[c] # <<>>
    /\ LET n == Want(c)
           buf == IF pc[c] = "AwaitingHeader" THEN hdr[c] ELSE pdu[c]
       IN  \E k \in 1 .. Min(RecvLimit(n, Len(buf)), Len(stream[c])) :
             LET got == buf \o SubSeq(stream[c], 1, k)
             IN  /\ stream' = [stream EXCEPT ![c] = SubSeq(@, k + 1, Len(@))]
                 /\ sent' = [sent EXCEPT ![c] = <<>>]
                 /\ IF RecvExactPending(got, n)
                    THEN /\ IF pc[c] = "AwaitingHeader"
                            THEN hdr' = [hdr EXCEPT ![c] = got] /\ pdu' = pdu
                            ELSE pdu' = [pdu EXCEPT ![c] = got] /\ hdr' = hdr
                         /\ UNCHANGED <<pc, resp, sample, err, connOpen>>
                    ELSE IF pc[c] = "AwaitingHeader"
                         THEN \* hdr = recv_exact(conn, 7); pdu = recv_exact(conn, length - 1)
                              IF RecvExactPending(<<>>, parse_mbap_header(got).length - 1)
                              THEN /\ hdr' = [hdr EXCEPT ![c] = got]
                                   /\ pc' = [pc EXCEPT ![c] = "AwaitingBody"]
                                   /\ UNCHANGED <<pdu, resp, sample, err, connOpen>>
                              ELSE \* pdu = b"": raise ConnectionError("Empty PDU received")
                                   /\ hdr' = [hdr EXCEPT ![c] = got]
                                   /\ Close(c, "Empty PDU received")
                                   /\ UNCHANGED <<pdu, resp, sample>>
                         ELSE /\ pdu' = [pdu EXCEPT ![c] = got]
                              /\ pc' = [pc EXCEPT ![c] = "Dispatching"]
                              /\ UNCHANGED <<hdr, resp, sample, err, connOpen>>
    /\ UNCHANGED <<unsent, net, faulted, now, call>>

\* mutant: a zero-length read is answered with an exception response
RecvEof_Answers(c) ==
    /\ pc[c] \in {"AwaitingHeader", "AwaitingBody"}
    /\ net[c] = "fin"
    /\ stream[c] = <<>>
    /\ pc' = [pc EXCEPT ![c] = "Responding"]
    /\ resp' = [resp EXCEPT ![c] = build_exception_response(0, 0, 0, FC_READ_HOLDING, ILLEGAL_DATA_VALUE)]
    /\ UNCHANGED <<stream, unsent, net, hdr, pdu, sample, err, faulted, sent, now, connOpen, call>>

\* sock.recv returns b"": raise ConnectionError("Socket closed while receiving data")
RecvEof(c) ==
    /\ pc[c] \in {"AwaitingHeader", "AwaitingBody"}
    /\ net[c] = "fin"
    /\ stream[c] = <<>>
    /\ Close(c, "Socket closed while receiving data")
    /\ UNCHANGED <<stream, unsent, net, hdr, pdu, resp, sample, faulted, sent, now, call>>

\* sock.recv raises ConnectionResetError
RecvReset(c) ==
    /\ pc[c] \in {"AwaitingHeader", "AwaitingBody"}
    /\ net[c] = "reset"
    /\ Close(c, "ConnectionResetError")
    /\ UNCHANGED <<stream, unsent, net, hdr, pdu, resp, sample, faulted, sent, now, call>>

\* mutant: hdr is a variable shared by the handlers: the request is answered
\* with the header another handler has just read
Dispatch_SharedHdr(c) ==
    /\ pc[c] = "Dispatching"
    /\ LET others == { d \in Conns : d # c /\ Len(hdr[d]) = MBAP_SIZE }
           h == IF others = {} THEN hdr[c] ELSE hdr[CHOOSE d \in others : TRUE]
           d == Dispatched(h, pdu[c], datetime_now)
       IN  /\ resp' = [resp EXCEPT ![c] = d.frame]
           /\ sample' = [sample EXCEPT ![c] = d.sample]
    /\ pc' = [pc EXCEPT ![c] = "Responding"]
    /\ UNCHANGED <<stream, unsent, net, hdr, pdu, err, faulted, sent, now, connOpen, call>>

\* mutant: once an exception response has been sent on a connection, every
\* later request on it is refused
Dispatch_Sticky(c) ==
    /\ pc[c] = "Dispatching"
    /\ LET d == IF faulted[c]
                THEN [frame |-> build_exception_response(0, 0, 0, pdu[c][1], ILLEGAL_FUNCTION), sample |-> <<>>]
                ELSE Dispatched(hdr[c], pdu[c], datetime_now)
       IN  /\ resp' = [resp EXCEPT ![c] = d.frame]
           /\ sample' = [sample EXCEPT ![c] = d.sample]
    /\ pc' = [pc EXCEPT ![c] = "Responding"]
    /\ UNCHANGED <<stream, unsent, net, hdr, pdu, err, faulted, sent, now, connOpen, call>>

\* from `function = pdu[0]` to the frame handed to sendall
Dispatch(c) ==
    /\ pc[c] = "Dispatching"
    /\ LET d == Dispatched(hdr[c], pdu[c], datetime_now)
       IN  /\ resp' = [resp EXCEPT ![c] = d.frame]
           /\ sample' = [sample EXCEPT ![c] = d.sample]
    /\ pc' = [pc EXCEPT ![c] = "Responding"]
    /\ UNCHANGED <<stream, unsent, net, hdr, pdu, err, faulted, sent, now, connOpen, call>>

\* mutant: the request is kept after the send and answered again
SendOk_Again(c) ==
    /\ pc[c] = "Responding"
    /\ net[c] \in {"open", "fin"}
    /\ sent' = [sent EXCEPT ![c] = << [req |-> hdr[c] \o pdu[c], frame |-> resp[c], sample |-> sample[c]] >>]
    /\ faulted' = [faulted EXCEPT ![c] = @ \/ IsException(resp[c])]
    /\ UNCHANGED <<pc, hdr, pdu, resp, sample>>
    /\ UNCHANGED <<stream, unsent, net, err, now, connOpen, call>>

\* conn.sendall(resp) returns; the loop goes back to recv_exact(conn, 7)
SendOk(c) ==
    /\ pc[c] = "Responding"
    /\ net[c] \in {"open", "fin"}
    /\ sent' = [sent EXCEPT ![c] = << [req |-> hdr[c] \o pdu[c], frame |-> resp[c], sample |-> sample[c]] >>]
    /\ faulted' = [faulted EXCEPT ![c] = @ \/ IsException(resp[c])]
    /\ pc' = [pc EXCEPT ![c] = AfterSend(resp[c])]
    /\ hdr' = [hdr EXCEPT ![c] = <<>>]
    /\ pdu' = [pdu EXCEPT ![c] = <<>>]
    /\ resp' = [resp EXCEPT ![c] = <<>>]
    /\ sample' = [sample EXCEPT ![c] = <<>>]
    /\ UNCHANGED <<stream, unsent, net, err, now, connOpen, call>>

\* conn.sendall(resp) raises OSError
SendFail(c) ==
    /\ pc[c] = "Responding"
    /\ net[c] \in {"fin", "reset"}
    /\ Close(c, "OSError on send")
    /\ UNCHANGED <<stream, unsent, net, hdr, pdu, resp, sample, faulted, sent, now, call>>

Handler(c) ==
    \/ RecvChunk(c)
    \/ RecvEof(c)
    \/ RecvReset(c)
    \/ Dispatch(c)
    \/ SendOk(c)
    \/ SendFail(c)

Peer(c) ==
    \/ \E f \in Frames : \E k \in Cuts \cup {Len(f)} : ClientSend(c, f, k)
    \/ ClientResume(c)
    \/ ClientClose(c)
    \/ ClientReset(c)

Next ==
    \/ \E c \in Conns : Handler(c)
    \/ \E c \in Conns : Peer(c)
    \/ Tick

Spec == Init /\ [][Next]_vars

TypeOK ==
    /\ \A c \in Conns : pc[c] \in {"AwaitingHeader", "AwaitingBody", "Dispatching", "Responding", "Closed"}
    /\ \A c \in Conns : \A i \in 1 .. Len(stream[c]) : stream[c][i] \in 0 .. 255

\* --------------------------- exchanges ---------------------------------
\* the request/response pairs completed by the latest sendall of each handler
Exchanges == { sent[c][1] : c \in { d \in Conns : sent[d] # <<>> } }

ReqPdu(e) == SubSeq(e.req, MBAP_SIZE + 1, Len(e.req))
RespPdu(e) == SubSeq(e.frame, MBAP_SIZE + 1, Len(e.frame))

\* a request with function code 0x03 and a PDU of 5 bytes
IsReadRequest(e) == Len(ReqPdu(e)) = 5 /\ ReqPdu(e)[1] = 3
ReqStart(e) == ReqPdu(e)[2] * 256 + ReqPdu(e)[3]
ReqQty(e) == ReqPdu(e)[4] * 256 + ReqPdu(e)[5]

\* C1: every response frame sent carries the transactionId (bytes 1-2),
\* protocolId (bytes 3-4) and unitId (byte 7) of the request it answers.
C1_EchoesIdentity ==
    \A e \in Exchanges :
        /\ Len(e.frame) >= MBAP_SIZE
        /\ \A i \in {1, 2, 3, 4, 7} : e.frame[i] = e.req[i]

\* an exception response to a request whose protocolId is 0x0304
C1_Witness ==
    \E e \in Exchanges :
        /\ <<e.req[3], e.req[4]>> = <<3, 4>>
        /\ IsException(e.frame)

\* C2: a read request with 1 <= quantity <= 125 and start + quantity <= 6 gets
\* the PDU 0x03, 2*quantity, then the quantity registers start .. start+quantity-1
\* of the bank sampled for it, each as two bytes, most significant first.
C2_ReadAnswered ==
    \A e \in Exchanges :
        (IsReadRequest(e) /\ ReqQty(e) >= 1 /\ ReqQty(e) <= 125 /\ ReqStart(e) + ReqQty(e) <= 6)
        => LET p == RespPdu(e)
               q == ReqQty(e)
           IN  /\ Len(p) = 2 + 2 * q
               /\ p[1] = 3
               /\ p[2] = 2 * q
               /\ \E t \in 0 .. now : e.sample = Registers(t)
               /\ \A i \in 1 .. q :
                    /\ p[2 * i + 1] = e.sample[ReqStart(e) + i] \div 256
                    /\ p[2 * i + 2] = e.sample[ReqStart(e) + i] % 256

\* the last register alone is read, after the clock has ticked
C2_Witness ==
    \E e \in Exchanges :
        /\ IsReadRequest(e) /\ ReqStart(e) = 5 /\ ReqQty(e) = 1
        /\ e.sample = Registers(1)

\* C3: a request with a non-empty PDU whose function code is not 0x03 gets the
\* two-byte PDU (functionCode | 0x80, 0x01), and no register is read for it.
C3_IllegalFunction ==
    \A e \in Exchanges :
        (Len(ReqPdu(e)) >= 1 /\ ReqPdu(e)[1] # 3)
        => /\ RespPdu(e) = << (ReqPdu(e)[1] % 128) + 128, 1 >>
           /\ e.sample = <<>>

\* a PDU that is the function code 0xFF alone
C3_Witness ==
    \E e \in Exchanges : ReqPdu(e) = <<255>>

\* C4: a request with function code 0x03 whose PDU is not 5 bytes long gets
\* the PDU 0x83 0x03.
C4_BadLength ==
    \A e \in Exchanges :
        (Len(ReqPdu(e)) >= 1 /\ ReqPdu(e)[1] = 3 /\ Len(ReqPdu(e)) # 5)
        => RespPdu(e) = <<131, 3>>

\* a PDU of 6 bytes
C4_Witness ==
    \E e \in Exchanges : ReqPdu(e)[1] = 3 /\ Len(ReqPdu(e)) = 6

\* C5: a read request whose quantity is 0 or greater than 125 gets the PDU
\* 0x83 0x03 whatever its start address.
C5_BadQuantity ==
    \A e \in Exchanges :
        (IsReadRequest(e) /\ (ReqQty(e) = 0 \/ ReqQty(e) > 125))
        => RespPdu(e) = <<131, 3>>

\* quantity 0 at start 7: the address range is violated as well
C5_Witness ==
    \E e \in Exchanges :
        IsReadRequest(e) /\ ReqQty(e) = 0 /\ ReqStart(e) + ReqQty(e) > 6

\* C6: a read request with 1 <= quantity <= 125 and start + quantity > 6 gets
\* the PDU 0x83 0x02.
C6_BadAddress ==
    \A e \in Exchanges :
        (IsReadRequest(e) /\ ReqQty(e) >= 1 /\ ReqQty(e) <= 125 /\ ReqStart(e) + ReqQty(e) > 6)
        => RespPdu(e) = <<131, 2>>

\* quantity 7 at start 0
C6_Witness ==
    \E e \in Exchanges : IsReadRequest(e) /\ ReqStart(e) = 0 /\ ReqQty(e) = 7

\* C7: in every frame sent the MBAP length field (bytes 5-6) is 1 + the number
\* of bytes that follow the unit identifier.
C7_LengthField ==
    \A e \in Exchanges :
        e.frame[5] * 256 + e.frame[6] = 1 + (Len(e.frame) - 7)

\* a normal response carrying six registers
C7_Witness ==
    \E e \in Exchanges : ~IsException(e.frame) /\ Len(e.frame) = 21

\* ---------------------------- the loop ----------------------------------
\* the handler of c takes the step (each of its steps changes one of these)
HandlerSteps(c) == pc'[c] # pc[c] \/ hdr'[c] # hdr[c] \/ pdu'[c] # pdu[c]

\* the handler of c is in a read that cannot return data
ReadFails(c) ==
    /\ pc[c] \in {"AwaitingHeader", "AwaitingBody"}
    /\ net[c] = "reset" \/ (net[c] = "fin" /\ stream[c] = <<>>)

\* C8: sending an exception response leaves the connection open and the
\* handler awaiting a header with nothing kept of the faulty request, and on a
\* connection that has had an exception response a later in-range read
\* request still gets its normal response.
C8_ErrorKeepsServing ==
    /\ [][\A c \in Conns :
            (pc[c] = "Responding" /\ IsException(resp[c]) /\ sent'[c] # sent[c])
            => /\ pc'[c] = "AwaitingHeader"
               /\ err'[c] = ""
               /\ <<hdr'[c], pdu'[c], resp'[c], sample'[c]>> = <<(<<>>), (<<>>), (<<>>), (<<>>)>>
               /\ sent'[c][1].frame = resp[c]]_vars
    /\ [](\A c \in Conns :
            (faulted[c] /\ sent[c] # <<>> /\ IsReadRequest(sent[c][1])
               /\ ReqQty(sent[c][1]) >= 1 /\ ReqStart(sent[c][1]) + ReqQty(sent[c][1]) <= 6)
            => LET e == sent[c][1]
               IN  /\ RespPdu(e)[1] = 3
                   /\ RespPdu(e)[2] = 2 * ReqQty(e)
                   /\ Len(RespPdu(e)) = 2 + 2 * ReqQty(e)
                   /\ \A i \in 1 .. ReqQty(e) :
                        RespPdu(e)[2 * i + 1] * 256 + RespPdu(e)[2 * i + 2] = e.sample[ReqStart(e) + i])

\* a normal response sent on a connection after an exception response
C8_Witness ==
    \E c \in Conns :
        faulted[c] /\ sent[c] # <<>> /\ ~IsException(sent[c][1].frame)

\* C9: a read or a send that fails takes the handler to Closed without
\* sending a frame or reading a byte, and a closed handler stays closed,
\* sends nothing and reads nothing.
C9_FailureCloses ==
    [][\A c \in Conns :
         /\ (ReadFails(c) /\ HandlerSteps(c))
            => (pc'[c] = "Closed" /\ sent'[c] = sent[c] /\ resp'[c] = resp[c] /\ stream'[c] = stream[c])
         /\ (pc[c] = "Responding" /\ HandlerSteps(c) /\ (net[c] = "reset" \/ sent'[c] = sent[c]))
            => (pc'[c] = "Closed" /\ sent'[c] = sent[c] /\ stream'[c] = stream[c])
         /\ pc[c] = "Closed"
            => /\ pc'[c] = "Closed"
               /\ <<sent'[c], resp'[c], hdr'[c], pdu'[c]>> = <<sent[c], resp[c], hdr[c], pdu[c]>>
               /\ Len(stream'[c]) >= Len(stream[c])
               /\ SubSeq(stream'[c], 1, Len(stream[c])) = stream[c]]_vars

\* the peer closed in the middle of a body: the header is complete, the rest
\* of the frame was never written
C9_Witness ==
    \E c \in Conns :
        /\ pc[c] = "Closed" /\ err[c] = "Socket closed while receiving data"
        /\ Len(hdr[c]) = MBAP_SIZE /\ unsent[c] # <<>>
        /\ sent[c] = <<>>

\* C10: when the header that completes has length field 0 or 1 the handler
\* ends with "Empty PDU received", having read the 7 header bytes and no more
\* and sent nothing; no exchange ever answers a request with an empty PDU.
C10_EmptyPduCloses ==
    /\ [][\A c \in Conns :
            (pc[c] = "AwaitingHeader" /\ hdr'[c] # hdr[c] /\ Len(hdr'[c]) = 7
               /\ hdr'[c][5] * 256 + hdr'[c][6] <= 1)
            => /\ pc'[c] = "Closed"
               /\ err'[c] = "Empty PDU received"
               /\ sent'[c] = <<>> /\ resp'[c] = <<>> /\ pdu'[c] = <<>>
               /\ Len(stream[c]) - Len(stream'[c]) = 7 - Len(hdr[c])]_vars
    /\ [](\A e \in Exchanges : Len(e.req) > 7)

\* a frame with length field 0 ended the handler while more bytes were waiting
C10_Witness ==
    \E c \in Conns :
        /\ pc[c] = "Closed" /\ err[c] = "Empty PDU received"
        /\ <<hdr[c][5], hdr[c][6]>> = <<0, 0>>
        /\ stream[c] # <<>>

\* ------------------------- order of the loop ----------------------------
\* the buffer recv_exact is filling
Buf(c) == IF pc[c] = "AwaitingHeader" THEN hdr[c] ELSE pdu[c]

\* C11 as claimed: a handler that leaves Responding has sent the response to
\* the request it held, it reads nothing while it holds a request, and it
\* sends only the response to the request it holds.
C11_Original ==
    [][\A c \in Conns :
         /\ (pc[c] = "Responding" /\ pc'[c] # "Responding")
            => sent'[c] = << [req |-> hdr[c] \o pdu[c], frame |-> resp[c], sample |-> sample[c]] >>
         /\ (pc[c] \in {"Dispatching", "Responding"} /\ HandlerSteps(c))
            => stream'[c] = stream[c]]_vars

\* C11 (amended): a fully received request gets at most one response: exactly
\* one, sent before any byte of the next request is read, when sendall
\* returns, and none when sendall fails on a connection that is not open, which
\* ends the handler.  A frame is sent only by a handler that holds a complete
\* request, and it answers that request.
C11_AtMostOneInOrder ==
    [][\A c \in Conns :
         /\ (pc[c] = "Dispatching" /\ HandlerSteps(c))
            => (pc'[c] = "Responding" /\ resp'[c] # <<>> /\ sent'[c] = sent[c] /\ stream'[c] = stream[c])
         /\ (pc[c] = "Responding" /\ HandlerSteps(c))
            => /\ stream'[c] = stream[c]
               /\ \/ /\ pc'[c] = "AwaitingHeader"
                     /\ sent'[c] = << [req |-> hdr[c] \o pdu[c], frame |-> resp[c], sample |-> sample[c]] >>
                     /\ hdr'[c] = <<>> /\ pdu'[c] = <<>> /\ resp'[c] = <<>>
                  \/ /\ pc'[c] = "Closed"
                     /\ sent'[c] = sent[c]
                     /\ net[c] # "open"
         /\ (sent'[c] # sent[c] /\ sent'[c] # <<>>)
            => (pc[c] = "Responding" /\ pc'[c] # "Responding")
         /\ (Len(stream'[c]) < Len(stream[c]))
            => (pc[c] \in {"AwaitingHeader", "AwaitingBody"} /\ resp[c] = <<>>)]_vars

\* a response is about to be sent while a whole further request waits unread
C11_Witness ==
    \E c \in Conns :
        pc[c] = "Responding" /\ Len(stream[c]) >= 8 /\ net[c] = "open"

\* C14: each read of recv_exact moves bytes from the front of the stream to
\* the end of its buffer, never beyond n bytes; the call returns only with
\* exactly n bytes; a zero-length read before that ends the handler with
\* ConnectionError and nothing is dispatched.
C14_RecvExact ==
    [][\A c \in Conns :
         (pc[c] \in {"AwaitingHeader", "AwaitingBody"} /\ HandlerSteps(c))
         => LET n == Want(c)
                before == Buf(c)
                after == IF pc[c] = "AwaitingHeader" THEN hdr'[c] ELSE pdu'[c]
            IN  /\ after \o stream'[c] = before \o stream[c]
                /\ Len(after) <= n
                /\ pc'[c] \in {"AwaitingBody", "Dispatching"} => (pc'[c] # pc[c] => Len(after) = n)
                /\ (pc'[c] = pc[c]) => (Len(after) < n /\ Len(after) > Len(before))
                /\ (stream[c] = <<>> /\ net[c] = "fin")
                   => (pc'[c] = "Closed" /\ err'[c] = "Socket closed while receiving data"
                       /\ after = before /\ sent'[c] = sent[c])]_vars

\* a body partly received in an earlier read, with more bytes waiting
C14_Witness ==
    \E c \in Conns :
        /\ pc[c] = "AwaitingBody"
        /\ Len(pdu[c]) >= 1 /\ Len(pdu[c]) < Want(c)
        /\ stream[c] # <<>>

\* C17: the registers of a response are those of the clock at the step that
\* dispatches the request, which follows its complete reception; the clock is
\* read only for a read request whose length and quantity are valid, and no
\* sample is kept once the response is sent.
C17_FreshSample ==
    /\ [][\A c \in Conns :
            (pc[c] = "Dispatching" /\ pc'[c] = "Responding")
            => /\ sample'[c] # <<>> => sample'[c] = Registers(now)
               /\ sample'[c] # <<>>
                  => (Len(pdu[c]) = 5 /\ pdu[c][1] = 3
                      /\ pdu[c][4] * 256 + pdu[c][5] >= 1 /\ pdu[c][4] * 256 + pdu[c][5] <= 125)
               /\ ~IsException(resp'[c])
                  => LET q == (Len(resp'[c]) - 9) \div 2
                         s == pdu[c][2] * 256 + pdu[c][3]
                     IN  \A i \in 1 .. q :
                           resp'[c][8 + 2 * i] * 256 + resp'[c][9 + 2 * i] = Registers(now)[s + i]]_vars
    /\ [](\A c \in Conns : pc[c] \in {"AwaitingHeader", "AwaitingBody", "Dispatching"} => sample[c] = <<>>)

\* all six registers sampled after the clock has ticked
C17_Witness ==
    \E c \in Conns :
        /\ pc[c] = "Responding" /\ now = 1
        /\ ~IsException(resp[c]) /\ Len(resp[c]) = 21
        /\ sample[c] = Registers(1)

\* ---------------------- read_clock_registers alone ----------------------
\* read_clock_registers(start, count) is about to be called
InitRegs ==
    /\ InitWith({})
    /\ call \in [start : (0 - ArgRange) .. ArgRange, count : (0 - ArgRange) .. ArgRange,
                 state : {"calling"}, at : {0}, ok : {FALSE}, vals : {<<>>}]

\* the call returns a tuple (ok) or raises IndexError
CallRead ==
    /\ call.state = "calling"
    /\ LET r == read_clock_registers(call.start, call.count, datetime_now)
       IN  call' = [call EXCEPT !.state = "done", !.at = now, !.ok = r.ok, !.vals = r.vals]
    /\ UNCHANGED <<stream, unsent, net, pc, hdr, pdu, resp, sample, err, faulted, connOpen, sent, now>>

NextRegs == CallRead \/ Tick

SpecRegs == InitRegs /\ [][NextRegs]_vars

\* C15 as claimed: for all integers start and count the call fails exactly
\* when start < 0 or start + count > 6, and otherwise returns count values,
\* the elements start .. start+count-1 of the bank.
C15_Original ==
    call.state = "done"
    => /\ ~call.ok <=> (call.start < 0 \/ call.start + call.count > 6)
       /\ call.ok => /\ Len(call.vals) = call.count
                     /\ \A i \in 1 .. call.count : call.vals[i] = Registers(call.at)[call.start + i]

\* C15 (amended): the same for every integer start and every count >= 0.
C15_NonNegativeCount ==
    (call.state = "done" /\ call.count >= 0)
    => /\ ~call.ok <=> (call.start < 0 \/ call.start + call.count > 6)
       /\ call.ok => /\ Len(call.vals) = call.count
                     /\ \A i \in 1 .. call.count : call.vals[i] = Registers(call.at)[call.start + i]

\* registers 2 .. 5 were read: start + count is exactly 6
C15_Witness ==
    call.state = "done" /\ call.ok /\ call.start = 2 /\ call.count = 4 /\ call.at = 1

\* ------------------------- several connections --------------------------
\* the connections serve may accept
ConnIds == {1, 2}

\* the identity the peer of connection c gives to its own requests
ConnIdent(c) == <<256 * c + 2, 772, 255 - c>>

\* a read of all six registers that every peer may send
SharedRead == Frame(<<1, 0, 1>>, ReadPdu(0, 6))

\* what the peer of connection c writes
ConnFrames(c) ==
    { SharedRead, Frame(ConnIdent(c), <<4>>) }

\* serve has bound and listens; nothing is accepted yet
InitConc ==
    /\ InitWith({})
    /\ call = NoCall

\* mutant: the accept loop ends when a handler has ended
Accept_UntilFailure(c) ==
    /\ c \in ConnIds \ Conns
    /\ \A d \in ConnIds \ Conns : c <= d
    /\ \A d \in Conns : pc[d] # "Closed"
    /\ stream' = [d \in Conns \cup {c} |-> IF d = c THEN <<>> ELSE stream[d]]
    /\ unsent' = [d \in Conns \cup {c} |-> IF d = c THEN <<>> ELSE unsent[d]]
    /\ net' = [d \in Conns \cup {c} |-> IF d = c THEN "open" ELSE net[d]]
    /\ pc' = [d \in Conns \cup {c} |-> IF d = c THEN "AwaitingHeader" ELSE pc[d]]
    /\ hdr' = [d \in Conns \cup {c} |-> IF d = c THEN <<>> ELSE hdr[d]]
    /\ pdu' = [d \in Conns \cup {c} |-> IF d = c THEN <<>> ELSE pdu[d]]
    /\ resp' = [d \in Conns \cup {c} |-> IF d = c THEN <<>> ELSE resp[d]]
    /\ sample' = [d \in Conns \cup {c} |-> IF d = c THEN <<>> ELSE sample[d]]
    /\ err' = [d \in Conns \cup {c} |-> IF d = c THEN "" ELSE err[d]]
    /\ faulted' = [d \in Conns \cup {c} |-> IF d = c THEN FALSE ELSE faulted[d]]
    /\ connOpen' = [d \in Conns \cup {c} |-> IF d = c THEN TRUE ELSE connOpen[d]]
    /\ sent' = [d \in Conns \cup {c} |-> IF d = c THEN <<>> ELSE sent[d]]
    /\ UNCHANGED <<now, call>>

\* serve: conn, addr = s.accept(); a thread running handle_client is started.
\* Connections are numbered in the order they are accepted
Accept(c) ==
    /\ c \in ConnIds \ Conns
    /\ \A d \in ConnIds \ Conns : c <= d
    /\ stream' = [d \in Conns \cup {c} |-> IF d = c THEN <<>> ELSE stream[d]]
    /\ unsent' = [d \in Conns \cup {c} |-> IF d = c THEN <<>> ELSE unsent[d]]
    /\ net' = [d \in Conns \cup {c} |-> IF d = c THEN "open" ELSE net[d]]
    /\ pc' = [d \in Conns \cup {c} |-> IF d = c THEN "AwaitingHeader" ELSE pc[d]]
    /\ hdr' = [d \in Conns \cup {c} |-> IF d = c THEN <<>> ELSE hdr[d]]
    /\ pdu' = [d \in Conns \cup {c} |-> IF d = c THEN <<>> ELSE pdu[d]]
    /\ resp' = [d \in Conns \cup {c} |-> IF d = c THEN <<>> ELSE resp[d]]
    /\ sample' = [d \in Conns \cup {c} |-> IF d = c THEN <<>> ELSE sample[d]]
    /\ err' = [d \in Conns \cup {c} |-> IF d = c THEN "" ELSE err[d]]
    /\ faulted' = [d \in Conns \cup {c} |-> IF d = c THEN FALSE ELSE faulted[d]]
    /\ connOpen' = [d \in Conns \cup {c} |-> IF d = c THEN TRUE ELSE connOpen[d]]
    /\ sent' = [d \in Conns \cup {c} |-> IF d = c THEN <<>> ELSE sent[d]]
    /\ UNCHANGED <<now, call>>

\* the peer of c writes whole frames, closes or resets
PeerConc(c) ==
    \/ \E f \in ConnFrames(c) : ClientSend(c, f, Len(f))
    \/ ClientClose(c)
    \/ ClientReset(c)

NextConc ==
    \/ \E c \in ConnIds : Accept(c)
    \/ \E c \in Conns : Handler(c)
    \/ \E c \in Conns : PeerConc(c)
    \/ Tick

SpecConc == InitConc /\ [][NextConc]_vars

\* s is an initial part of t
IsPrefix(s, t) == Len(s) <= Len(t) /\ SubSeq(t, 1, Len(s)) = s

\* C12: with several handlers running, what the handler of c holds, has built
\* and has sent comes from the bytes of c's own peer: the request it answered
\* is a frame c's peer wrote, the response carries that request's
\* transactionId, protocolId and unitId, and its PDU is the result of that
\* request.
C12_NoCrossTalk ==
    \A c \in Conns :
        /\ \E f \in ConnFrames(c) : IsPrefix(hdr[c] \o pdu[c], f)
        /\ resp[c] # <<>> => \A i \in {1, 2, 3, 4, 7} : resp[c][i] = hdr[c][i]
        /\ sent[c] # <<>>
           => LET e == sent[c][1]
              IN  /\ e.req \in ConnFrames(c)
                  /\ \A i \in {1, 2, 3, 4, 7} : e.frame[i] = e.req[i]
                  /\ e.req # SharedRead
                     => /\ <<e.frame[1] * 256 + e.frame[2], e.frame[3] * 256 + e.frame[4], e.frame[7]>> = ConnIdent(c)
                        /\ RespPdu(e) = <<132, 1>>
                  /\ e.req = SharedRead
                     => /\ Len(RespPdu(e)) = 14 /\ RespPdu(e)[1] = 3 /\ RespPdu(e)[2] = 12
                        /\ \E t \in 0 .. now : e.sample = Registers(t)
                        /\ \A i \in 1 .. 6 :
                             RespPdu(e)[2 * i + 1] * 256 + RespPdu(e)[2 * i + 2] = e.sample[i]

\* both handlers have just answered: one its peer's own request, the other the
\* shared read
C12_Witness ==
    /\ Conns = {1, 2}
    /\ sent[1] # <<>> /\ sent[2] # <<>>
    /\ sent[1][1].req = SharedRead
    /\ sent[2][1].req # SharedRead

\* C19: two handlers whose connections have different histories, one with an
\* exception response behind it and one without, that answer the same request
\* bytes with the same clock sample (or with no sample) send the same frame.
C19_SameRequestSameResponse ==
    \A c \in Conns : \A d \in Conns :
        (/\ sent[c] # <<>> /\ sent[d] # <<>>
         /\ sent[c][1].req = sent[d][1].req
         /\ \/ sent[c][1].sample = sent[d][1].sample
            \/ sent[c][1].sample = <<>>
            \/ sent[d][1].sample = <<>>)
        => sent[c][1] = sent[d][1]

\* the same read answered at the same clock value on a connection that has had
\* an exception response and on one that has not
C19_Witness ==
    /\ Conns = {1, 2}
    /\ sent[1] # <<>> /\ sent[2] # <<>>
    /\ sent[1][1].req = SharedRead /\ sent[2][1].req = SharedRead
    /\ sent[1][1].sample = sent[2][1].sample
    /\ faulted[1] /\ ~faulted[2]

\* ------------------------------ framing ---------------------------------
\* a frame whose length field declares 8 PDU bytes more than the peer writes
\* with it: the handler takes them from what the peer writes next
OverDeclared == PackMbap(1, 0, 10, 1) \o <<4>>

FramingFrames ==
    { OverDeclared, Frame(<<1, 0, 1>>, <<4>>), Frame(<<1, 0, 1>>, ReadPdu(0, 6)) }

PeerFraming(c) ==
    \/ \E f \in FramingFrames : \E k \in Cuts \cup {Len(f)} : ClientSend(c, f, k)
    \/ ClientResume(c)
    \/ ClientClose(c)
    \/ ClientReset(c)

NextFraming ==
    \/ \E c \in Conns : Handler(c)
    \/ \E c \in Conns : PeerFraming(c)
    \/ Tick

SpecFraming == Init /\ [][NextFraming]_vars

\* the length field of a complete header
LengthField(h) == h[5] * 256 + h[6]

\* C18: the handler holds, for a request, exactly the 7 header bytes and the
\* length - 1 body bytes the header declares (none when length <= 1); every
\* byte it takes from the stream goes to that request; and a frame is sent
\* only when all declared body bytes have been received.
C18_FramingByLength ==
    /\ [](\A c \in Conns :
            /\ pc[c] = "AwaitingHeader" => (Len(hdr[c]) < 7 /\ pdu[c] = <<>>)
            /\ pc[c] = "AwaitingBody"
               => (Len(hdr[c]) = 7 /\ Len(pdu[c]) < LengthField(hdr[c]) - 1 /\ resp[c] = <<>>)
            /\ pc[c] \in {"Dispatching", "Responding"}
               => (Len(hdr[c]) = 7 /\ LengthField(hdr[c]) >= 2 /\ Len(pdu[c]) = LengthField(hdr[c]) - 1)
            /\ err[c] = "Empty PDU received"
               => (Len(hdr[c]) = 7 /\ LengthField(hdr[c]) <= 1 /\ pdu[c] = <<>>)
            /\ sent[c] # <<>>
               => Len(sent[c][1].req) = 7 + (LengthField(sent[c][1].req) - 1))
    /\ [][\A c \in Conns :
            /\ Len(stream'[c]) < Len(stream[c])
               => /\ pc[c] \in {"AwaitingHeader", "AwaitingBody"}
                  /\ Len(hdr'[c]) + Len(pdu'[c]) - (Len(hdr[c]) + Len(pdu[c]))
                       = Len(stream[c]) - Len(stream'[c])
            /\ (sent'[c] # sent[c] /\ sent'[c] # <<>>)
               => (Len(hdr[c]) = 7 /\ Len(pdu[c]) = LengthField(hdr[c]) - 1)]_vars

\* the over-declared frame was answered once the 8 bytes of the frame written
\* after it had been taken as the rest of its body
C18_Witness ==
    \E c \in Conns :
        /\ sent[c] # <<>>
        /\ Len(sent[c][1].req) = 16
        /\ SubSeq(sent[c][1].req, 1, 8) = OverDeclared
        /\ SubSeq(sent[c][1].req, 9, 16) = Frame(<<1, 0, 1>>, <<4>>)

\* ------------------------------ fairness --------------------------------
\* every handler thread that can take a step eventually takes one
HandlerOf(c) == c \in Conns /\ Handler(c)

\* the peer of c asks for the six clock registers under its own identifiers
LiveRead(c) == Frame(ConnIdent(c), ReadPdu(0, 6))

PeerLive(c) ==
    \/ ClientSend(c, LiveRead(c), Len(LiveRead(c)))
    \/ ClientClose(c)
    \/ ClientReset(c)

\* the connections, their peers and their handlers, the clock standing still
NextLive ==
    \/ \E c \in ConnIds : Accept(c)
    \/ \E c \in Conns : Handler(c)
    \/ \E c \in Conns : PeerLive(c)

SpecLive ==
    /\ InitConc
    /\ [][NextLive]_vars
    /\ \A c \in ConnIds : WF_vars(HandlerOf(c))

\* a whole request of the peer of c waits on the open connection c, whose
\* handler is about to read a header
RequestWaits(c) ==
    /\ c \in Conns
    /\ net[c] = "open"
    /\ pc[c] = "AwaitingHeader" /\ hdr[c] = <<>>
    /\ stream[c] = LiveRead(c)

\* C13: whatever has happened on the other connections, the listener can
\* accept the next connection, and a request that waits on an open connection
\* is answered unless that connection itself is closed or reset by its peer.
C13_Isolation ==
    /\ [](\A c \in ConnIds \ Conns : (\A d \in ConnIds \ Conns : c <= d) => ENABLED Accept(c))
    /\ \A c \in ConnIds :
         RequestWaits(c) ~> (c \in Conns /\ (sent[c] # <<>> \/ net[c] # "open"))

\* connection 1 has ended on a reset; connection 2 has just been answered
C13_Witness ==
    /\ Conns = {1, 2}
    /\ pc[1] = "Closed" /\ err[1] = "ConnectionResetError"
    /\ sent[2] # <<>> /\ net[2] = "open"

\* an exception that is neither ConnectionError nor OSError is raised inside
\* the try block: the finally clause runs and the exception leaves handle_client
Raise(c) ==
    /\ pc[c] # "Closed"
    /\ Close(c, "other exception")
    /\ UNCHANGED <<stream, unsent, net, hdr, pdu, resp, sample, faulted, sent, now, call>>

NextExit ==
    \/ NextLive
    \/ \E c \in Conns : Raise(c)

SpecExit ==
    /\ InitConc
    /\ [][NextExit]_vars
    /\ \A c \in ConnIds : WF_vars(HandlerOf(c))

\* C16: a handler has ended exactly when conn.close() has been called on its
\* socket, whatever ended it, and once the peer has closed its end the
\* handler ends.
C16_ClosesAndEnds ==
    /\ [](\A c \in Conns : pc[c] = "Closed" <=> ~connOpen[c])
    /\ [](\A c \in Conns : pc[c] = "Closed" <=> err[c] # "")
    /\ \A c \in ConnIds :
         (c \in Conns /\ net[c] = "fin") ~> (c \in Conns /\ pc[c] = "Closed" /\ ~connOpen[c])

\* the peer closed its end after it was answered and the handler ended on the
\* zero-length read, its socket closed
C16_Witness ==
    \E c \in Conns :
        /\ net[c] = "fin" /\ pc[c] = "Closed" /\ ~connOpen[c]
        /\ err[c] = "Socket closed while receiving data"
        /\ sent[c] # <<>>

====
